---- MODULE Spec2Model ----
(***************************************************************************)
(* A model of gowebcompress: the response interceptor of dynamic.go        *)
(* (outBuf: Write, FS and the completion function of Handler), the         *)
(* negotiation policy, the compressor factory, and the static cache        *)
(* manager of static.go (SendFile, Compress, walker, makeStaticCompressed).*)
(*                                                                         *)
(* Strings the code slices or compares by prefix (paths, content types)    *)
(* are sequences of one-character strings, so that path.Join, HasPrefix    *)
(* and mime[:6] are computed as the code computes them.  Body bytes are    *)
(* chunks <<k, n>>: n bytes of content k (the k-th handler write; for a    *)
(* file, k also says how well the content compresses).  What a writer      *)
(* emits is a sequence of items [e, c]: chunk c under the stack of codecs  *)
(* e (<< >> for raw bytes), with c = EOF for the trailer a codec writes    *)
(* when it is closed.                                                      *)
(*                                                                         *)
(* Six specifications share the variables: Spec (a response through        *)
(* Handler), SpecPolicy (the negotiation policy on its inputs), SpecLookup *)
(* (the static lookups on their paths), SpecStatic (a StaticObj with its   *)
(* walkers and workers), SpecStaticFair (the same under fair scheduling of *)
(* the goroutines) and SpecWarm (a response beside a second request that   *)
(* is warming the cache for the same path).                                *)
(***************************************************************************)
EXTENDS Integers, Sequences, FiniteSets, TLC

(***************************************************************************)
(* Sequences in general.                                                   *)
(***************************************************************************)
RECURSIVE Flatten(_)
Flatten(ss) ==
    IF ss = << >> THEN << >> ELSE Head(ss) \o Flatten(Tail(ss))

Last(s) == s[Len(s)]

Front(s) == SubSeq(s, 1, Len(s) - 1)

(* strings.HasPrefix(s, p), also written len(p) > len(s) || p != s[:len(p)] *)
HasPrefix(s, p) ==
    /\ Len(p) <= Len(s)
    /\ SubSeq(s, 1, Len(p)) = p

(***************************************************************************)
(* path.Clean and path.Join of the Go standard library, on sequences of    *)
(* characters.                                                             *)
(***************************************************************************)
RECURSIVE SplitSlash(_, _, _)
SplitSlash(s, i, cur) ==
    IF i > Len(s) THEN <<cur>>
    ELSE IF s[i] = "/" THEN <<cur>> \o SplitSlash(s, i + 1, << >>)
    ELSE SplitSlash(s, i + 1, Append(cur, s[i]))

Segments(s) == SplitSlash(s, 1, << >>)

DotDot == <<".", ".">>

RECURSIVE CleanSegs(_, _, _)
CleanSegs(segs, out, rooted) ==
    IF segs = << >> THEN out
    ELSE LET h == Head(segs)
             t == Tail(segs)
         IN  IF h = << >> \/ h = <<".">> THEN CleanSegs(t, out, rooted)
             ELSE IF h = DotDot
                  THEN IF out # << >> /\ Last(out) # DotDot
                       THEN CleanSegs(t, Front(out), rooted)
                       ELSE IF rooted THEN CleanSegs(t, out, rooted)
                       ELSE CleanSegs(t, Append(out, h), rooted)
             ELSE CleanSegs(t, Append(out, h), rooted)

RECURSIVE JoinSlash(_)
JoinSlash(segs) ==
    IF segs = << >> THEN << >>
    ELSE IF Len(segs) = 1 THEN Head(segs)
    ELSE Head(segs) \o <<"/">> \o JoinSlash(Tail(segs))

Clean(s) ==
    IF s = << >> THEN <<".">>
    ELSE LET rooted == s[1] = "/"
             body == JoinSlash(CleanSegs(Segments(s), << >>, rooted))
         IN  IF rooted THEN <<"/">> \o body
             ELSE IF body = << >> THEN <<".">> ELSE body

(* path.Join(a, b): empty elements are ignored, the rest joined and cleaned *)
Join(a, b) ==
    IF a = << >> /\ b = << >> THEN << >>
    ELSE IF a = << >> THEN Clean(b)
    ELSE IF b = << >> THEN Clean(a)
    ELSE Clean(a \o <<"/">> \o b)


(* strings.Contains(s, sub) *)
Contains(s, sub) ==
    \E i \in 0..(Len(s) - Len(sub)) : SubSeq(s, i + 1, i + Len(sub)) = sub

(***************************************************************************)
(* Encodings (dynamic.go, const block) and their names.                    *)
(***************************************************************************)
none == 0
gzType == 1
brType == 2

Encodings == {none, gzType, brType}

ceString(encoding) ==
    CASE encoding = gzType -> <<"g", "z", "i", "p">>
      [] encoding = brType -> <<"b", "r">>
      [] OTHER -> <<"i", "d", "e", "n", "t", "i", "t", "y">>

healthyCache(encoding) ==
    CASE encoding = brType -> <<".", "b", "r">>
      [] OTHER -> <<".", "g", "z">>

(***************************************************************************)
(* NegotiationPolicy: alreadyCompressed, browserWants, shouldCompress.     *)
(* A slice expression out of range panics; the outcome "panic" stands for  *)
(* the run-time panic the expression mime[:6] raises on a five-byte string.*)
(***************************************************************************)
PprofPrefix == <<"/", "d", "e", "b", "u", "g", "/", "p", "p", "r", "o", "f">>

ImagePrefix == <<"i", "m", "a", "g", "e", "/">>
VideoPrefix == <<"v", "i", "d", "e", "o", "/">>
AudioPrefix == <<"a", "u", "d", "i", "o", "/">>
WoffPrefix == <<"f", "o", "n", "t", "/", "w", "o", "f", "f">>

alreadyCompressed(mime) ==
    IF Len(mime) >= 5
    THEN IF Len(mime) < 6 THEN "panic"
         ELSE LET ctStart == SubSeq(mime, 1, 6)
              IN  IF ctStart = ImagePrefix
                  THEN LET t == SubSeq(mime, 7, Len(mime))
                       IN  IF t # <<"g", "i", "f">> /\ t # <<"p", "n", "g">>
                           THEN "yes" ELSE "no"
                  ELSE IF ctStart = VideoPrefix \/ ctStart = AudioPrefix
                       THEN "yes"
                  ELSE IF Len(mime) >= 9 /\ SubSeq(mime, 1, 9) = WoffPrefix
                       THEN "yes"
                  ELSE "no"
    ELSE "no"

browserWants(r) ==
    IF /\ Contains(r.ae, <<"b", "r">>)
       /\ (r.tls \/ r.xfp = "https")
    THEN brType
    ELSE IF Contains(r.ae, <<"g", "z", "i", "p">>) THEN gzType
    ELSE none

(* http.Header.Get: the first value of the key, "" when there is none *)
HeaderGet(values) == IF values = << >> THEN << >> ELSE Head(values)

(* the outcome of shouldCompress: [panic, enc] *)
shouldCompress(r, h) ==
    IF Len(r.path) > 11 /\ SubSeq(r.path, 1, 12) = PprofPrefix
    THEN [panic |-> FALSE, enc |-> none]
    ELSE LET ac == alreadyCompressed(HeaderGet(h.ct))
         IN  IF ac = "panic" THEN [panic |-> TRUE, enc |-> none]
             ELSE IF ac = "yes" THEN [panic |-> FALSE, enc |-> none]
             ELSE [panic |-> FALSE, enc |-> browserWants(r)]

(***************************************************************************)
(* CompressorFactory: headersFor and the header part of makeCompressor.    *)
(* A header set h is [ct, ce, te, cl, cr, vary]: the values of             *)
(* Content-Type, the values of Content-Encoding, TE and Vary (<< >> when   *)
(* unset), and whether Content-Length and Content-Range are present.       *)
(***************************************************************************)
headersForContent(h, encoding) ==
    [h EXCEPT !.cl = FALSE, !.ce = ceString(encoding)]

headersFor(h, encoding) ==
    IF h.cr
    THEN [h EXCEPT !.cl = FALSE, !.te = ceString(encoding)]
    ELSE [h EXCEPT !.cl = FALSE, !.ce = ceString(encoding)]

AcceptEncodingName == <<"A", "c", "c", "e", "p", "t", "-", "E", "n", "c", "o", "d", "i", "n", "g">>

GzipLevelValid(level) == level >= -2 /\ level <= 9

(* DynamicLevels and StaticLevels of dynamic.go *)
DynamicLevels == [Gzip |-> 2, Brotli |-> 2]
StaticLevels == [Gzip |-> 6, Brotli |-> 4]

(* what makeCompressor returns and does to the headers:                    *)
(* [err, kind, h], kind one of "gz", "br", "fake"                          *)
makeCompressor(encoding, h, levels) ==
    IF encoding = gzType
    THEN IF ~GzipLevelValid(levels.Gzip)
         THEN [err |-> TRUE, kind |-> "nil", h |-> h]
         ELSE [err |-> FALSE, kind |-> "gz",
               h |-> [headersFor(h, encoding) EXCEPT !.vary = AcceptEncodingName]]
    ELSE IF encoding = brType
    THEN [err |-> FALSE, kind |-> "br",
          h |-> [headersFor(h, encoding) EXCEPT !.vary = AcceptEncodingName]]
    ELSE [err |-> FALSE, kind |-> "fake", h |-> [h EXCEPT !.vary = AcceptEncodingName]]

(***************************************************************************)
(* Byte streams.  An item is [e, c]: chunk c under the stack of codecs e   *)
(* (innermost first; << >> for raw bytes).  EOF is the trailer a codec     *)
(* writes when it is closed.                                               *)
(***************************************************************************)
EOF == <<0, 0>>

Raw(chunks) == [i \in 1..Len(chunks) |-> [e |-> << >>, c |-> chunks[i]]]

KindEnc(kind) == IF kind = "gz" THEN gzType ELSE IF kind = "br" THEN brType ELSE none

(* items as they leave a writer of this kind *)
Encode(kind, items) ==
    IF kind = "fake" THEN items
    ELSE [i \in 1..Len(items) |->
            [e |-> Append(items[i].e, KindEnc(kind)), c |-> items[i].c]]

Trailer(kind) ==
    IF kind = "fake" THEN << >> ELSE <<[e |-> <<KindEnc(kind)>>, c |-> EOF]>>

(* the complete stream a codec produces for these chunks *)
Compressed(encoding, chunks) ==
    [i \in 1..Len(chunks) |-> [e |-> <<encoding>>, c |-> chunks[i]]]
        \o <<[e |-> <<encoding>>, c |-> EOF]>>

RECURSIVE SumLen(_)
SumLen(chunks) ==
    IF chunks = << >> THEN 0 ELSE Head(chunks)[2] + SumLen(Tail(chunks))

(***************************************************************************)
(* Bounds of the model and constants of the program.                       *)
(***************************************************************************)
Threshold == 1024

MaxWrites == 3
MaxFSCalls == 2
MaxTime == 4

(* the lengths a handler write is drawn from *)
WriteLens == {400, 623, 1024}

(***************************************************************************)
(* State.                                                                  *)
(*   req, staticBase   the request and the BasePath of CacheOpts           *)
(*   hdr, status       the response's header set and written status code   *)
(*   b, bAlloc         outBuf.b: its bytes, and whether b # nil            *)
(*   compressor        outBuf.compressor: [kind, tee, err, disk, mime,     *)
(*                     closed]; kind "nil" is the nil interface, tee says  *)
(*                     it is an *fsCache writing to the files disk and     *)
(*                     mime, closed lists what has been closed, in order   *)
(*   cmpType, Errors   outBuf.cmpType, outBuf.Errors                       *)
(*   sink, sinkBroken  what the underlying ResponseWriter has received, and *)
(*                     whether its connection is gone (writes fail)        *)
(*   pool              gets and puts on bufpool by this response, and the  *)
(*                     bytes the slices put back still hold                *)
(*   pc                "handler", "panic" (unwinding), "done"              *)
(*   fs, now           the file system (path -> file) and the clock        *)
(* History: written (the chunks the handler passed to Write), wire (the    *)
(* order of header mutations "H" and body bytes "B"), fsCalls, lookup      *)
(* (the last static lookup: resolved path, accepted or not, file-system    *)
(* calls made).                                                            *)
(***************************************************************************)
VARIABLES req, staticBase, hdr, status, b, bAlloc, compressor, cmpType,
          Errors, sink, sinkBroken, pool, pc, fs, now,
          written, wire, fsCalls, lookup

(***************************************************************************)
(* State of the static cache manager.                                      *)
(*   static            the StaticObj's options: [gz, br, dest, src]        *)
(*   walkerIsRunning, walkerPaths   its fields of these names; walkerLock  *)
(*                     is held for the whole of each critical section,     *)
(*                     which is one action here                            *)
(*   walkers           the walker goroutines started so far, each          *)
(*                     [pc, root, todo, pass]: pc "top" (at the head of    *)
(*                     its loop), "walk" (in filepath.Walk, todo the paths *)
(*                     still to visit), "send" (blocked on ch <- walkpath, *)
(*                     the head of todo) or "exit"                         *)
(*   workers           the worker goroutines started so far, each          *)
(*                     [w, pass, pc, path, enc, outPath, in, out]: the     *)
(*                     walker and pass whose channel it reads, pc "recv"   *)
(*                     or a step of makeStaticCompressed, and in and out   *)
(*                     its open files (the names they now have)            *)
(* History: compressCalls, sendCalls, lastJob (the sizes the last finished *)
(* job compared and what it did at the final path).                        *)
(***************************************************************************)
VARIABLES static, walkerIsRunning, walkerPaths, walkers, workers,
          compressCalls, sendCalls, lastJob

dynVars == <<req, staticBase, hdr, status, b, bAlloc, compressor, cmpType,
             Errors, sink, sinkBroken, pool, pc, written, wire, fsCalls>>

statVars == <<static, walkerIsRunning, walkerPaths, walkers, workers,
              compressCalls, sendCalls, lastJob>>

vars == <<dynVars, fs, now, lookup, statVars>>

NoCompressor ==
    [kind |-> "nil", tee |-> FALSE, err |-> FALSE, disk |-> << >>, mime |-> << >>,
     closed |-> << >>]

(* a static lookup: who made it, the resolved source path, whether the    *)
(* path check accepted it, the file-system calls made, the outcome, the   *)
(* negotiated encoding, what stat said of the artifact (exists, size,     *)
(* mtime) and of the source (mtime), and whether a root was enqueued      *)
Lookup(by, full, ok, ops, how, enc, art, src, enq) ==
    [by |-> by, full |-> full, ok |-> ok, ops |-> ops, how |-> how, enc |-> enc,
     cex |-> art.ex, csz |-> art.size, cmt |-> art.mtime, smt |-> src.mtime,
     enq |-> enq]

NoStat == [ex |-> FALSE, size |-> 0, mtime |-> 0]

StatOf(f, p) ==
    IF p \in DOMAIN f
    THEN [ex |-> TRUE, size |-> f[p].size, mtime |-> f[p].mtime]
    ELSE NoStat

NoLookup == Lookup("none", << >>, FALSE, 0, "none", none, NoStat, NoStat, FALSE)

(***************************************************************************)
(* Files.  A file is [dir, data, text, size, mtime]: data the items of a   *)
(* body, text the string of a sidecar.                                     *)
(***************************************************************************)
Exists(f, p) == p \in DOMAIN f

EmptyFile(t) ==
    [dir |-> FALSE, data |-> << >>, text |-> << >>, size |-> 0, mtime |-> t]

FilePut(f, p, file) ==
    [q \in DOMAIN f \cup {p} |-> IF q = p THEN file ELSE f[q]]

ByteLen(items) == SumLen([i \in 1..Len(items) |-> items[i].c])

FileAppend(f, p, items, t) ==
    IF items = << >> \/ ~Exists(f, p) THEN f
    ELSE [f EXCEPT ![p] = [@ EXCEPT !.data = @ \o items,
                                    !.size = @ + ByteLen(items),
                                    !.mtime = t]]

DirFile(t) ==
    [dir |-> TRUE, data |-> << >>, text |-> << >>, size |-> 0, mtime |-> t]

IsDir(f, p) == Exists(f, p) /\ f[p].dir

(* path.Dir of a cleaned path *)
PathDir(p) ==
    LET segs == Segments(p)
        d == JoinSlash(Front(segs))
    IN  IF Len(segs) <= 1 THEN <<".">>
        ELSE IF d = << >> THEN <<"/">>
        ELSE d

(* os.Create(p) succeeds when p's directory exists and p is no directory; *)
(* it truncates an existing file (the same file, emptied) or makes one    *)
CanCreate(f, p) == IsDir(f, PathDir(p)) /\ ~IsDir(f, p)

OSCreate(f, p, t) ==
    IF ~CanCreate(f, p) THEN f ELSE FilePut(f, p, EmptyFile(t))

(* a buffer that holds only the last write *)
bufAppendKeepLast(buf, chunk) == <<chunk>>

(* o.b = append(o.b, b...) *)
bufAppend(buf, chunk) == Append(buf, chunk)

Log(w, x) == IF w # << >> /\ Last(w) = x THEN w ELSE Append(w, x)

(***************************************************************************)
(* outBuf: writes through the compressor.  st is the part of the state a   *)
(* write changes, [sink, fs, err, wire]; err afterwards is the error the   *)
(* call returns (gzip and brotli writers keep their first error).          *)
(***************************************************************************)
WriteTo(cmp, st, items) ==
    IF items = << >> THEN st
    ELSE IF st.err /\ cmp.kind # "fake" THEN st
    ELSE LET out == Encode(cmp.kind, items)
             fs1 == IF cmp.tee THEN FileAppend(st.fs, cmp.disk, out, now)
                    ELSE st.fs
         IN  IF sinkBroken
             THEN [st EXCEPT !.fs = fs1, !.err = TRUE]
             ELSE [st EXCEPT !.fs = fs1, !.sink = @ \o out,
                             !.wire = Log(@, "B")]

(* compressorCatchup(l, cacher): cacher is [on, disk, mime]                *)
compressorCatchupOn(l, cacher, f) ==
    LET sc == shouldCompress(req, hdr)
        mk == makeCompressor(sc.enc, hdr, l)
        cmp == IF mk.err THEN NoCompressor
               ELSE [kind |-> mk.kind, tee |-> cacher.on, err |-> FALSE,
                     disk |-> cacher.disk, mime |-> cacher.mime,
                     closed |-> << >>]
        st0 == [sink |-> sink, fs |-> f, err |-> FALSE,
                wire |-> IF mk.err THEN wire ELSE Log(wire, "H")]
        st1 == IF mk.err \/ b = << >> THEN st0 ELSE WriteTo(cmp, st0, Raw(b))
    IN  [panic |-> sc.panic, err |-> mk.err \/ st1.err, cmp |-> cmp,
         enc |-> sc.enc, h |-> mk.h, st |-> st1]

NoCacher == [on |-> FALSE, disk |-> << >>, mime |-> << >>]

compressorCatchup(l, cacher) == compressorCatchupOn(l, cacher, fs)

(* outBuf.Write(b), b of n bytes *)
Write(n) ==
    /\ pc = "handler"
    /\ Len(written) < MaxWrites
    /\ LET chunk == <<Len(written) + 1, n>>
       IN  /\ written' = Append(written, chunk)
           /\ IF compressor.kind = "nil"
              THEN IF SumLen(b) + n < Threshold
                   THEN /\ b' = bufAppend(b, chunk)
                        /\ bAlloc' = TRUE
                        /\ pool' = IF bAlloc THEN pool
                                   ELSE [pool EXCEPT !.gets = @ + 1]
                        /\ UNCHANGED <<hdr, compressor, cmpType, sink, fs,
                                       wire, pc>>
                   ELSE LET r == compressorCatchup(DynamicLevels, NoCacher)
                            st == IF r.err THEN r.st
                                  ELSE WriteTo(r.cmp, r.st, Raw(<<chunk>>))
                        IN  IF r.panic
                            THEN /\ pc' = "panic"
                                 /\ UNCHANGED <<hdr, compressor, cmpType, sink,
                                                fs, wire, b, bAlloc, pool>>
                            ELSE /\ compressor' = [r.cmp EXCEPT !.err = st.err]
                                 /\ cmpType' = r.enc
                                 /\ hdr' = r.h
                                 /\ sink' = st.sink
                                 /\ fs' = st.fs
                                 /\ wire' = st.wire
                                 /\ UNCHANGED <<b, bAlloc, pool, pc>>
              ELSE LET st == WriteTo(compressor,
                                     [sink |-> sink, fs |-> fs,
                                      err |-> compressor.err, wire |-> wire],
                                     Raw(<<chunk>>))
                   IN  /\ compressor' = [compressor EXCEPT !.err = st.err]
                       /\ sink' = st.sink
                       /\ fs' = st.fs
                       /\ wire' = st.wire
                       /\ UNCHANGED <<hdr, cmpType, b, bAlloc, pool, pc>>
    /\ UNCHANGED <<req, staticBase, status, Errors, sinkBroken, now, fsCalls,
                   lookup, statVars>>

(* the completion function Handler returns *)
(* what Close of the compressor closes, in order: an fsCache its wrapped   *)
(* codec and then the cache file; and the two the other way round          *)
CloseDiskFirst(tee) == IF tee THEN <<"disk", "wc">> ELSE <<"cmp">>

CloseOrder(tee) == IF tee THEN <<"wc", "disk">> ELSE <<"cmp">>

(* buf.b[:0], and the slice kept whole instead *)
KeepAll(buf) == buf

Truncate(buf) == SubSeq(buf, 1, 0)

Finalize ==
    /\ pc \in {"handler", "panic"}
    /\ pc' = "done"
    /\ LET st0 == [sink |-> sink, fs |-> fs, err |-> compressor.err,
                   wire |-> wire]
           (* buf.compressor.Close(): a codec writes its trailer; an      *)
           (* fsCache closes wc, ignores its error, and closes the disk   *)
           stC == IF compressor.kind = "nil" THEN st0
                  ELSE IF compressor.kind = "fake" \/ st0.err THEN st0
                  ELSE LET out == Trailer(compressor.kind)
                           fs1 == IF compressor.tee
                                  THEN FileAppend(fs, compressor.disk, out, now)
                                  ELSE fs
                       IN  IF sinkBroken
                           THEN [st0 EXCEPT !.fs = fs1, !.err = TRUE]
                           ELSE [st0 EXCEPT !.fs = fs1, !.sink = @ \o out,
                                            !.wire = Log(@, "B")]
           closeErr == compressor.kind \in {"gz", "br"} /\ ~compressor.tee /\ stC.err
           errs1 == IF closeErr THEN Append(Errors, "close") ELSE Errors
           (* buf.output.Write(buf.b) *)
           writeErr == sinkBroken
           sink2 == IF writeErr THEN stC.sink ELSE stC.sink \o Raw(b)
           wire2 == IF writeErr \/ b = << >> THEN stC.wire
                    ELSE Log(stC.wire, "B")
           errs2 == IF writeErr THEN Append(errs1, "write") ELSE errs1
           (* c.WriteMIME(buf.Header().Get("content-type")) *)
           closed1 == IF compressor.kind = "nil" THEN compressor.closed
                      ELSE compressor.closed \o CloseOrder(compressor.tee)
           closed3 == IF ~writeErr /\ compressor.tee
                      THEN Append(closed1, "mimefile")
                      ELSE closed1
           fs3 == IF ~writeErr /\ compressor.tee /\ Exists(stC.fs, compressor.mime)
                  THEN [stC.fs EXCEPT ![compressor.mime] =
                           [@ EXCEPT !.text = HeaderGet(hdr.ct),
                                     !.size = Len(HeaderGet(hdr.ct)),
                                     !.mtime = now]]
                  ELSE stC.fs
       IN  /\ sink' = sink2
           /\ wire' = wire2
           /\ Errors' = errs2
           /\ fs' = fs3
           /\ compressor' = [compressor EXCEPT !.err = stC.err,
                                             !.closed = closed3]
    (* the deferred bufpool.Put(buf.b[:0]) *)
    /\ pool' = IF bAlloc
               THEN [pool EXCEPT !.puts = @ + 1, !.kept = @ \o Truncate(b)]
               ELSE pool
    /\ UNCHANGED <<req, staticBase, hdr, status, b, bAlloc, cmpType,
                   sinkBroken, now, written, fsCalls, lookup, statVars>>

Dot == <<".">>
MimeExt == <<".", "m", "i", "m", "e">>

(* outBuf.FS(sys, origPath, creat, staticBase), sys an fs.StatFS rooted    *)
(* at "/" and creat OSCreate, as DiskCacheMiddleware passes them           *)
FS ==
    /\ pc = "handler"
    /\ fsCalls < MaxFSCalls
    /\ fsCalls' = fsCalls + 1
    /\ LET origFullPath == Join(staticBase, req.rel)
           sc == shouldCompress(req, hdr)
           dest == origFullPath \o Dot \o ceString(sc.enc)
           mimepath == origFullPath \o MimeExt
           look(ok, n, how) ==
               Lookup("FS", origFullPath, ok, n, how, sc.enc,
                      IF ok /\ n > 0 THEN StatOf(fs, dest) ELSE NoStat,
                      IF ok /\ n > 1 THEN StatOf(fs, origFullPath) ELSE NoStat,
                      FALSE)
           quiet == UNCHANGED <<hdr, status, compressor, sink, fs, wire>>
       IN  IF req.method # "GET"
           THEN /\ lookup' = Lookup("FS", << >>, FALSE, 0, "notget", none, NoStat,
                                     NoStat, FALSE)
                /\ quiet
                /\ UNCHANGED <<Errors, cmpType, pc>>
           ELSE IF ~HasPrefix(origFullPath, staticBase)
           THEN /\ Errors' = Append(Errors, "Illegal path")
                /\ lookup' = look(FALSE, 0, "reject")
                /\ quiet
                /\ UNCHANGED <<cmpType, pc>>
           ELSE IF sc.panic
           THEN /\ pc' = "panic"
                /\ lookup' = look(TRUE, 0, "panic")
                /\ quiet
                /\ UNCHANGED <<Errors, cmpType>>
           ELSE
             /\ pc' = pc
             /\ cmpType' = sc.enc
             /\ IF sc.enc = none
                THEN /\ lookup' = look(TRUE, 0, "none")
                     /\ quiet
                     /\ UNCHANGED Errors
                ELSE IF Exists(fs, dest) /\ (~Exists(fs, origFullPath)
                                              \/ fs[dest].dir
                                              \/ fs[origFullPath].dir)
                THEN (* no file. No future. *)
                     /\ lookup' = look(TRUE, 2, "nofile")
                     /\ quiet
                     /\ UNCHANGED Errors
                ELSE IF /\ Exists(fs, dest)
                        /\ req.ims.has /\ req.ims.ok
                        /\ fs[origFullPath].mtime < req.ims.t
                THEN /\ status' = 304
                     /\ lookup' = look(TRUE, 2, "304")
                     /\ UNCHANGED <<hdr, compressor, sink, fs, wire, Errors>>
                ELSE IF /\ Exists(fs, dest)
                        /\ fs[dest].mtime > fs[origFullPath].mtime
                THEN (* the compressed file is newer: serve it *)
                     IF ~Exists(fs, mimepath)
                     THEN /\ Errors' = Append(Errors, "open err")
                          /\ lookup' = look(TRUE, 4, "openerr")
                          /\ quiet
                     ELSE /\ hdr' = headersFor(
                                      [hdr EXCEPT !.ct = Append(@, fs[mimepath].text)],
                                      sc.enc)
                          /\ lookup' = look(TRUE, 4, "hit")
                          /\ IF sinkBroken /\ fs[dest].data # << >>
                             THEN /\ Errors' = Append(Errors, "Copy err")
                                  /\ wire' = Log(wire, "H")
                                  /\ UNCHANGED sink
                             ELSE /\ sink' = sink \o fs[dest].data
                                  /\ wire' = IF fs[dest].data = << >>
                                             THEN Log(wire, "H")
                                             ELSE Log(Log(wire, "H"), "B")
                                  /\ UNCHANGED Errors
                          /\ UNCHANGED <<status, compressor, fs>>
                ELSE (* miss or stale *)
                     LET n == IF Exists(fs, dest) THEN 2 ELSE 1
                     IN  IF compressor.kind # "nil"
                         THEN /\ lookup' = look(TRUE, n, "skip")
                              /\ quiet
                              /\ UNCHANGED Errors
                         ELSE IF ~CanCreate(fs, dest)
                         THEN /\ Errors' = Append(Errors, "can't create file")
                              /\ lookup' = look(TRUE, n + 1, "createerr")
                              /\ quiet
                         ELSE IF ~CanCreate(fs, mimepath)
                         THEN /\ Errors' = Append(Errors, "can't create file")
                              /\ lookup' = look(TRUE, n + 2, "createerr")
                              /\ fs' = OSCreate(fs, dest, now)
                              /\ UNCHANGED <<hdr, status, compressor, sink, wire>>
                         ELSE LET fs1 == OSCreate(OSCreate(fs, dest, now), mimepath, now)
                                  r == compressorCatchupOn(
                                         StaticLevels,
                                         [on |-> TRUE, disk |-> dest, mime |-> mimepath],
                                         fs1)
                              IN  /\ lookup' = look(TRUE, n + 2, "miss")
                                  /\ compressor' = [r.cmp EXCEPT !.err = r.st.err]
                                  /\ hdr' = r.h
                                  /\ sink' = r.st.sink
                                  /\ fs' = r.st.fs
                                  /\ wire' = r.st.wire
                                  /\ Errors' = IF r.err THEN Append(Errors, "catchup")
                                               ELSE Errors
                                  /\ UNCHANGED status
    /\ UNCHANGED <<req, staticBase, b, bAlloc, sinkBroken, pool, now, written,
                   statVars>>

(* the client's connection goes away: later writes to the sink fail *)
SinkBreak ==
    /\ pc = "handler"
    /\ ~sinkBroken
    /\ sinkBroken' = TRUE
    /\ UNCHANGED <<req, staticBase, hdr, status, b, bAlloc, compressor, cmpType,
                   Errors, sink, pool, pc, fs, now, written, wire, fsCalls,
                   lookup, statVars>>

Tick ==
    /\ now < MaxTime
    /\ now' = now + 1
    /\ UNCHANGED <<dynVars, fs, lookup, statVars>>

(***************************************************************************)
(* The static cache manager (static.go).                                   *)
(***************************************************************************)
(* runtime.NumCPU() of the machine *)
NumCPU == 1

(* bounds: the passes one walker makes, the walker goroutines in all (no   *)
(* call that could start one is made beyond it), and the calls of Compress *)
(* and of SendFile                                                         *)
MaxPasses == 1
MaxWalkers == 2
MaxCompress == 1
MaxSends == 1

TmpMark == <<"t", "m", "p">>

(* the working directory of the process *)
Cwd == <<"/", "w">>

(* path.Base of a cleaned path: its last element *)
PathBase(p) == Last(Segments(p))

(* os.MkdirAll(p): makes the directory unless something is there *)
MkdirAll(f, p, t) ==
    IF Exists(f, p) \/ ~IsDir(f, PathDir(p)) THEN f ELSE FilePut(f, p, DirFile(t))

(* a path as the process resolves it *)
Resolve(p) == IF p # << >> /\ p[1] = "/" THEN p ELSE Join(Cwd, p)

(* the name under which the file that c named lives on, unlinked, while   *)
(* it is held open: no path reaches it                                     *)
RECURSIVE Unlinked(_, _)
Unlinked(f, c) ==
    LET u == <<"#">> \o c IN IF Exists(f, u) THEN Unlinked(f, u) ELSE u

(* os.Rename(a, c): c now names a's file, a names nothing; the file c      *)
(* named is gone unless it is held open                                    *)
OSRename(f, a, c, held) ==
    LET f1 == IF held /\ Exists(f, c) THEN FilePut(f, Unlinked(f, c), f[c]) ELSE f
    IN  [q \in (DOMAIN f1 \ {a}) \cup {c} |-> IF q = c THEN f[a] ELSE f1[q]]

(* an open file follows its file, not its name: after a rename of a to c   *)
(* the files open at a are at c, and those open at the old c are unlinked  *)
HandleAfterRename(f, h, a, c) ==
    IF h = a THEN c ELSE IF h = c THEN Unlinked(f, c) ELSE h

(* a write of items, sz bytes, through an open file *)
HandleWrite(f, h, items, sz, t) ==
    IF ~Exists(f, h) \/ sz = 0 THEN f
    ELSE [f EXCEPT ![h] = [@ EXCEPT !.data = @ \o items,
                                    !.size = @ + sz,
                                    !.mtime = t]]

(* the order of strings: byte-wise *)
Alphabet == <<"#", ".", "/", "a", "b", "c", "d", "e", "f", "g", "h", "i", "j", "k",
              "l", "m", "n", "o", "p", "q", "r", "s", "t", "u", "v", "w", "x",
              "y", "z">>

Rank(ch) == CHOOSE i \in 1..Len(Alphabet) : Alphabet[i] = ch

RECURSIVE StrLess(_, _)
StrLess(x, y) ==
    IF y = << >> THEN FALSE
    ELSE IF x = << >> THEN TRUE
    ELSE IF Head(x) = Head(y) THEN StrLess(Tail(x), Tail(y))
    ELSE Rank(Head(x)) < Rank(Head(y))

(* filepath.Walk visits a directory's names in lexical order, a directory *)
(* before what it holds                                                    *)
RECURSIVE SegsLess(_, _)
SegsLess(x, y) ==
    IF y = << >> THEN FALSE
    ELSE IF x = << >> THEN TRUE
    ELSE IF Head(x) = Head(y) THEN SegsLess(Tail(x), Tail(y))
    ELSE StrLess(Head(x), Head(y))

RECURSIVE SortPaths(_)
SortPaths(S) ==
    IF S = {} THEN << >>
    ELSE LET m == CHOOSE x \in S :
                    \A y \in S \ {x} : SegsLess(Segments(x), Segments(y))
         IN  <<m>> \o SortPaths(S \ {m})

(* the files filepath.Walk(root, ...) visits (for a directory the walk    *)
(* function returns at once): none when root does not exist, root alone    *)
(* when it is a file                                                       *)
WalkList(f, root) ==
    IF ~Exists(f, root) THEN << >>
    ELSE IF ~f[root].dir THEN <<root>>
    ELSE SortPaths({q \in DOMAIN f :
                      /\ ~f[q].dir
                      /\ HasPrefix(q, IF root = <<"/">> THEN root
                                      ELSE root \o <<"/">>)})

(* the walk function of walker: whether walkpath is sent to the workers *)
Dispatched(f, dest, walkpath) ==
    /\ Exists(f, walkpath)
    /\ ~f[walkpath].dir
    /\ ~(f[walkpath].size < Threshold)
    /\ LET d == Join(dest, walkpath)
       IN  ~(Exists(f, d) /\ f[walkpath].mtime < f[d].mtime)

NoJob == [done |-> FALSE, in |-> 0, out |-> 0, how |-> "none", final |-> << >>]

NewWalker == [pc |-> "top", root |-> << >>, todo |-> << >>, pass |-> 0]

NewWorker(w, pass) ==
    [w |-> w, pass |-> pass, pc |-> "recv", path |-> << >>, enc |-> none,
     outPath |-> << >>, in |-> << >>, out |-> << >>]

(* StaticObj.Compress(path), the whole of it under walkerLock *)
Enqueue(paths, running, ws, path) ==
    [paths |-> Append(paths, path),
     walkers |-> IF ~running THEN Append(ws, NewWalker) ELSE ws]

Compress ==
    /\ compressCalls < MaxCompress
    /\ Len(walkers) < MaxWalkers
    /\ compressCalls' = compressCalls + 1
    /\ LET e == Enqueue(walkerPaths, walkerIsRunning, walkers, static.src)
       IN  /\ walkerPaths' = e.paths
           /\ walkers' = e.walkers
    /\ UNCHANGED <<dynVars, fs, now, lookup, static, walkerIsRunning, workers,
                   sendCalls, lastJob>>

(* copy(s.walkerPaths, s.walkerPaths[1:]): the elements move down one      *)
(* place; the slice keeps its length                                       *)
copyDown(paths) == Tail(paths) \o <<Last(paths)>>

(* walker, from the head of its loop to filepath.Walk: the critical        *)
(* section, make(chan string), and the start of the workers of this pass   *)
WalkerTop(w) ==
    /\ walkers[w].pc = "top"
    /\ IF Len(walkerPaths) = 0
       THEN /\ walkerIsRunning' = FALSE
            /\ walkers' = [walkers EXCEPT ![w].pc = "exit"]
            (* the deferred close(ch) of every pass ends their workers *)
            /\ workers' = [k \in 1..Len(workers) |->
                             IF workers[k].w = w /\ workers[k].pc = "recv"
                             THEN [workers[k] EXCEPT !.pc = "exit"]
                             ELSE workers[k]]
            /\ UNCHANGED walkerPaths
       ELSE /\ walkers[w].pass < MaxPasses
            /\ walkerPaths' = copyDown(walkerPaths)
            /\ walkers' = [walkers EXCEPT
                             ![w] = [pc |-> "walk", root |-> walkerPaths[1],
                                     todo |-> WalkList(fs, walkerPaths[1]),
                                     pass |-> @.pass + 1]]
            /\ workers' = workers \o
                            [i \in 1..NumCPU |-> NewWorker(w, walkers[w].pass + 1)]
            /\ UNCHANGED walkerIsRunning
    /\ UNCHANGED <<dynVars, fs, now, lookup, static, compressCalls, sendCalls,
                   lastJob>>

(* filepath.Walk calls the walk function on the next path *)
WalkerVisit(w) ==
    /\ walkers[w].pc = "walk"
    /\ IF walkers[w].todo = << >>
       THEN walkers' = [walkers EXCEPT ![w].pc = "top"]
       ELSE IF Dispatched(fs, static.dest, Head(walkers[w].todo))
       THEN walkers' = [walkers EXCEPT ![w].pc = "send"]
       ELSE walkers' = [walkers EXCEPT ![w].todo = Tail(@)]
    /\ UNCHANGED <<dynVars, fs, now, lookup, static, walkerIsRunning,
                   walkerPaths, workers, compressCalls, sendCalls, lastJob>>

(* the first job of a worker for a path, and the one after a job *)
FirstJob(wk, path) ==
    IF static.gz # 0
    THEN [wk EXCEPT !.pc = "open", !.path = path, !.enc = gzType]
    ELSE IF static.br # 0
    THEN [wk EXCEPT !.pc = "open", !.path = path, !.enc = brType]
    ELSE wk

AfterJob(wk) ==
    IF wk.enc = gzType /\ static.br # 0
    THEN [wk EXCEPT !.pc = "open", !.enc = brType, !.outPath = << >>,
                    !.in = << >>, !.out = << >>]
    ELSE [wk EXCEPT !.pc = "recv", !.path = << >>, !.enc = none,
                    !.outPath = << >>, !.in = << >>, !.out = << >>]

(* ch <- walkpath meets path := range ch of a worker of this pass *)
Handoff(w, k) ==
    /\ walkers[w].pc = "send"
    /\ workers[k].w = w
    /\ workers[k].pass = walkers[w].pass
    /\ workers[k].pc = "recv"
    /\ workers' = [workers EXCEPT ![k] = FirstJob(@, Head(walkers[w].todo))]
    /\ walkers' = [walkers EXCEPT ![w].pc = "walk", ![w].todo = Tail(@)]
    /\ UNCHANGED <<dynVars, fs, now, lookup, static, walkerIsRunning,
                   walkerPaths, compressCalls, sendCalls, lastJob>>

(* the size of the compressed form of a chunk: its content (the chunk's    *)
(* first field) decides how well it compresses: to a half, to just over    *)
(* nine tenths, or not at all (stored, with the codec's framing)           *)
Framing == 18

ChunkCompSize(c) ==
    IF c[1] % 3 = 1 THEN c[2] \div 2
    ELSE IF c[1] % 3 = 2 THEN (c[2] * 9) \div 10 + 1
    ELSE c[2] + Framing

RECURSIVE ItemsCompSize(_)
ItemsCompSize(items) ==
    IF items = << >> THEN 0
    ELSE ChunkCompSize(Head(items).c) + ItemsCompSize(Tail(items))

(* the bytes a codec writes for a file's content; compressed content does  *)
(* not compress again                                                      *)
CompSize(file) ==
    IF file.size = 0 THEN 0
    ELSE IF \A i \in 1..Len(file.data) : file.data[i].e = << >>
    THEN ItemsCompSize(file.data)
    ELSE file.size + Framing

(* the codec makeStaticCompressed runs for an encoding *)
JobKind(encoding) == IF encoding = brType THEN "gz" ELSE "br"

(* outstat.Size()*9/10 > instat.Size() *)
TooBig(outsz, insz) == (outsz * 9) \div 10 > insz

(* makeStaticCompressed, from os.Open to the construction of the writer *)
JobOpen(k) ==
    /\ workers[k].pc = "open"
    /\ LET wk == workers[k]
           outPath == Join(static.dest, wk.path) \o healthyCache(wk.enc) \o TmpMark
           level == IF wk.enc = gzType THEN static.gz ELSE static.br
           fs1 == MkdirAll(fs, Resolve(PathBase(outPath)), now)
       IN  IF ~Exists(fs, wk.path)
           THEN /\ workers' = [workers EXCEPT ![k] = AfterJob(wk)]
                /\ UNCHANGED fs
           ELSE IF ~CanCreate(fs1, outPath)
           THEN /\ workers' = [workers EXCEPT ![k] = AfterJob(wk)]
                /\ fs' = fs1
           ELSE /\ fs' = OSCreate(fs1, outPath, now)
                /\ IF JobKind(wk.enc) = "gz" /\ ~GzipLevelValid(level)
                   THEN workers' = [workers EXCEPT ![k] = AfterJob(wk)]
                   ELSE workers' = [workers EXCEPT
                                      ![k] = [wk EXCEPT !.pc = "copy",
                                                        !.outPath = outPath,
                                                        !.in = wk.path,
                                                        !.out = outPath]]
    /\ UNCHANGED <<dynVars, now, lookup, static, walkerIsRunning, walkerPaths,
                   walkers, compressCalls, sendCalls, lastJob>>

(* io.Copy(cmp, input): what the input holds goes through the codec into   *)
(* the temp file, sz bytes of it; cmp is not closed, its trailer not       *)
(* written                                                                 *)
JobCopy(k) ==
    /\ workers[k].pc = "copy"
    /\ LET wk == workers[k]
           src == IF Exists(fs, wk.in) THEN fs[wk.in] ELSE EmptyFile(0)
       IN  /\ fs' = HandleWrite(fs, wk.out, Encode(JobKind(wk.enc), src.data),
                                CompSize(src), now)
           /\ workers' = [workers EXCEPT ![k].pc = "finish"]
    /\ UNCHANGED <<dynVars, now, lookup, static, walkerIsRunning, walkerPaths,
                   walkers, compressCalls, sendCalls, lastJob>>

(* the final path of a temp path: outPath[:len(outPath)-3] *)
FinalPath(outPath) == SubSeq(outPath, 1, Len(outPath) - 3)

SizeAt(f, h) == IF Exists(f, h) THEN f[h].size ELSE 0

(* makeStaticCompressed from outFile.Sync to its return *)
JobFinish(k) ==
    /\ workers[k].pc = "finish"
    /\ LET wk == workers[k]
           final == FinalPath(wk.outPath)
           outsz == SizeAt(fs, wk.out)
           insz == SizeAt(fs, wk.in)
           held == \E j \in 1..Len(workers) :
                      j # k /\ (workers[j].in = final \/ workers[j].out = final)
           moved(h) == HandleAfterRename(fs, h, wk.outPath, final)
           job(how) == [done |-> TRUE, in |-> insz, out |-> outsz, how |-> how,
                        final |-> final]
       IN  IF TooBig(outsz, insz)
           THEN (* flag with a zero-size file; the temp file stays *)
                /\ fs' = OSCreate(fs, final, now)
                /\ workers' = [workers EXCEPT ![k] = AfterJob(wk)]
                /\ lastJob' = job(IF CanCreate(fs, final) THEN "sentinel" ELSE "error")
           ELSE IF ~Exists(fs, wk.outPath) \/ IsDir(fs, final)
           THEN /\ workers' = [workers EXCEPT ![k] = AfterJob(wk)]
                /\ lastJob' = job("error")
                /\ UNCHANGED fs
           ELSE /\ fs' = OSRename(fs, wk.outPath, final, held)
                /\ workers' = [j \in 1..Len(workers) |->
                                 IF j = k THEN AfterJob(wk)
                                 ELSE [workers[j] EXCEPT !.in = moved(@),
                                                         !.out = moved(@)]]
                /\ lastJob' = job("published")
    /\ UNCHANGED <<dynVars, now, lookup, static, walkerIsRunning, walkerPaths,
                   walkers, compressCalls, sendCalls>>

(* absPath(relPath, encoding): [err, src, cache] *)
absPath(relPath, encoding) ==
    LET q == Join(static.src, relPath)
        r == Join(static.dest, relPath)
        escape == [err |-> TRUE, src |-> << >>, cache |-> << >>]
    IN  IF ~HasPrefix(q, static.src) THEN escape
        ELSE IF encoding = none THEN [err |-> FALSE, src |-> q, cache |-> q]
        ELSE IF ~HasPrefix(q, static.dest) THEN escape
        ELSE [err |-> FALSE, src |-> q, cache |-> r \o healthyCache(encoding)]

(* makeCompressor(encoding, w) as static.go calls it: gzip at level 4,     *)
(* brotli at quality 3, straight onto w                                    *)
makeCompressorW(encoding, h) ==
    makeCompressor(encoding, h, [Gzip |-> 4, Brotli |-> 3])

(* sendFile(path, w), w a writer of this kind in front of the sink:        *)
(* [err, sink, wire]                                                       *)
sendFile(f, path, kind, snk, wr) ==
    IF ~Exists(f, path) \/ f[path].dir
    THEN [err |-> TRUE, sink |-> snk, wire |-> wr]
    ELSE IF f[path].data = << >>
    THEN [err |-> FALSE, sink |-> snk, wire |-> wr]
    ELSE IF sinkBroken
    THEN [err |-> TRUE, sink |-> snk, wire |-> wr]
    ELSE [err |-> FALSE, sink |-> snk \o Encode(kind, f[path].data),
          wire |-> Log(wr, "B")]

(* StaticObj.SendFile(r, w, relPath), relPath the request's *)
SendFile ==
    /\ pc = "handler"
    /\ sendCalls < MaxSends
    /\ Len(walkers) < MaxWalkers
    /\ sendCalls' = sendCalls + 1
    /\ LET encoding == browserWants(req)
           ap == absPath(req.rel, encoding)
           look(ok, n, how, enq) ==
               Lookup("SendFile", Join(static.src, req.rel), ok, n, how, encoding,
                      IF ok /\ n > 1 THEN StatOf(fs, ap.cache) ELSE NoStat,
                      IF ok /\ n > 0 THEN StatOf(fs, ap.src) ELSE NoStat,
                      enq)
           idle == UNCHANGED <<walkerPaths, walkers>>
       IN  IF ap.err
           THEN /\ lookup' = look(FALSE, 0, "reject", FALSE)
                /\ UNCHANGED <<hdr, sink, wire>>
                /\ idle
           ELSE IF ~Exists(fs, ap.src)
           THEN /\ lookup' = look(TRUE, 1, "nofile", FALSE)
                /\ UNCHANGED <<hdr, sink, wire>>
                /\ idle
           ELSE IF Exists(fs, ap.cache) /\ fs[ap.cache].size = 0
           THEN (* the "SHOULD NOT COMPRESS" case *)
                LET s == sendFile(fs, ap.src, "fake", sink, wire)
                IN  /\ lookup' = look(TRUE, 3, "raw", FALSE)
                    /\ sink' = s.sink
                    /\ wire' = s.wire
                    /\ UNCHANGED hdr
                    /\ idle
           ELSE IF ~Exists(fs, ap.cache) \/ fs[ap.src].mtime > fs[ap.cache].mtime
           THEN (* cache outdated *)
                LET e == Enqueue(walkerPaths, walkerIsRunning, walkers, ap.cache)
                    mk == makeCompressorW(encoding, hdr)
                    s == sendFile(fs, ap.src, mk.kind, sink, Log(wire, "H"))
                IN  /\ walkerPaths' = e.paths
                    /\ walkers' = e.walkers
                    /\ IF mk.err
                       THEN /\ lookup' = look(TRUE, 2, "err", TRUE)
                            /\ UNCHANGED <<hdr, sink, wire>>
                       ELSE /\ lookup' = look(TRUE, 3,
                                               IF s.err THEN "copyerr" ELSE "miss",
                                               TRUE)
                            /\ hdr' = mk.h
                            /\ sink' = s.sink
                            /\ wire' = s.wire
           ELSE (* serve cached bits *)
                LET s == sendFile(fs, ap.cache, "fake", sink, Log(wire, "H"))
                IN  /\ lookup' = look(TRUE, 3, "hit", FALSE)
                    /\ hdr' = headersFor(hdr, encoding)
                    /\ sink' = s.sink
                    /\ wire' = s.wire
                    /\ idle
    /\ UNCHANGED <<req, staticBase, status, b, bAlloc, compressor, cmpType, Errors,
                   sinkBroken, pool, pc, fs, now, written, fsCalls, static,
                   walkerIsRunning, workers, compressCalls, lastJob>>

(***************************************************************************)
(* Initial states.  The inputs of a response: the request, the headers the *)
(* handler has set, and the files on disk for the requested path.          *)
(***************************************************************************)
BaseA == <<"/", "a">>
RelF == <<"f">>

PathX == <<"/", "x">>

AEGzip == <<"g", "z", "i", "p">>
AEBr == <<"b", "r">>
AEBoth == <<"g", "z", "i", "p", ",", " ", "b", "r">>
AEDeflate == <<"d", "e", "f", "l", "a", "t", "e">>

CTHtml == <<"t", "e", "x", "t", "/", "h", "t", "m", "l">>
CTJpeg == <<"i", "m", "a", "g", "e", "/", "j", "p", "e", "g">>
CTPng == <<"i", "m", "a", "g", "e", "/", "p", "n", "g">>
CTFive == <<"a", "b", "/", "c", "d">>

NoIMS == [has |-> FALSE, ok |-> FALSE, t |-> 0]

Headers(cts, cls, crs) ==
    {[ct |-> c, ce |-> << >>, te |-> << >>, cl |-> l, cr |-> r, vary |-> << >>] :
        c \in cts, l \in cls, r \in crs}

(* the body of a source file and of a complete artifact of it *)
SourceChunks == <<<<1, 2000>>>>

FullFile(items, t) ==
    [dir |-> FALSE, data |-> items, text |-> << >>, size |-> ByteLen(items),
     mtime |-> t]

TextFile(str, t) ==
    [dir |-> FALSE, data |-> << >>, text |-> str, size |-> Len(str), mtime |-> t]

(* the source at time 2, and its artifact for each encoding in state art:  *)
(* "absent", "empty", "fresh", "equal" or "stale"                          *)
ArtFor(enc, art) ==
    IF art = "empty" THEN EmptyFile(3)
    ELSE FullFile(Compressed(enc, SourceChunks),
                  IF art = "fresh" THEN 3 ELSE IF art = "equal" THEN 2 ELSE 1)

DiskFor(orig, gzPath, brPath, mimePath, src, art) ==
    LET f0 == FilePut(FilePut(<< >>, <<"/">>, DirFile(0)), PathDir(orig), DirFile(0))
        f1 == IF src THEN FilePut(f0, orig, FullFile(Raw(SourceChunks), 2)) ELSE f0
        f2 == IF art = "absent" THEN f1
              ELSE FilePut(FilePut(FilePut(f1, gzPath, ArtFor(gzType, art)),
                                   brPath, ArtFor(brType, art)),
                           mimePath, TextFile(CTHtml, 3))
    IN  f2

FSDisk(base, rel, src, art) ==
    LET orig == Join(base, rel)
    IN  DiskFor(orig, orig \o Dot \o ceString(gzType), orig \o Dot \o ceString(brType),
                orig \o MimeExt, src, art)

ArtStates == {"absent", "empty", "fresh", "equal", "stale"}

Request(m, p, rel, a, t, x, i) ==
    [method |-> m, path |-> p, rel |-> rel, ae |-> a, tls |-> t, xfp |-> x,
     ims |-> i]

DynRequests ==
    {Request("GET", PathX, RelF, a, FALSE, "", NoIMS) : a \in {<< >>, AEGzip, AEBoth}}
      \cup {Request("GET", PathX, RelF, AEBoth, TRUE, "", NoIMS),
            Request("GET", PprofPrefix, RelF, AEGzip, FALSE, "", NoIMS),
            Request("GET", PathX, RelF, AEGzip, FALSE, "", [has |-> TRUE, ok |-> TRUE, t |-> 3]),
            Request("POST", PathX, RelF, AEGzip, FALSE, "", NoIMS)}

DynHeaders ==
    Headers({<< >>, <<CTHtml>>, <<CTJpeg>>}, {TRUE}, {FALSE})
      \cup Headers({<<CTHtml>>}, {TRUE}, {TRUE})

InitDyn(requests, headers, disks) ==
    /\ req \in requests
    /\ staticBase = BaseA
    /\ hdr \in headers
    /\ status = 0
    /\ b = << >>
    /\ bAlloc = FALSE
    /\ compressor = NoCompressor
    /\ cmpType = none
    /\ Errors = << >>
    /\ sink = << >>
    /\ sinkBroken = FALSE
    /\ pool = [gets |-> 0, puts |-> 0, kept |-> << >>]
    /\ pc = "handler"
    /\ fs \in disks
    /\ now = 3
    /\ written = << >>
    /\ wire = << >>
    /\ fsCalls = 0
    /\ lookup = NoLookup

(* the options of NewStatic's default StaticObj, but for src and dest *)
StaticOpts(src, dest, gz, br) == [gz |-> gz, br |-> br, dest |-> dest, src |-> src]

(* no StaticObj in use *)
NoStatic ==
    /\ static = StaticOpts(BaseA, <<"/">>, 9, 11)
    /\ walkerIsRunning = FALSE
    /\ walkerPaths = << >>
    /\ walkers = << >>
    /\ workers = << >>
    /\ compressCalls = 0
    /\ sendCalls = 0
    /\ lastJob = NoJob

(* the disk an earlier response leaves when FS was called before the      *)
(* handler set its Content-Type (as DiskCacheMiddleware calls it): the     *)
(* policy saw no content type and cached the body, and WriteMIME then      *)
(* stored the content type the handler had set meanwhile                   *)
JpegDisk ==
    FilePut(FSDisk(BaseA, RelF, TRUE, "fresh"), Join(BaseA, RelF) \o MimeExt,
            TextFile(CTJpeg, 3))

Init ==
    /\ InitDyn(DynRequests, DynHeaders,
               {FSDisk(BaseA, RelF, TRUE, a) : a \in ArtStates} \cup {JpegDisk})
    /\ NoStatic

Next ==
    \/ \E n \in WriteLens : Write(n)
    \/ FS
    \/ Finalize
    \/ SinkBreak

Spec == Init /\ [][Next]_vars

(***************************************************************************)
(* The negotiation policy on its whole input space: the same response     *)
(* model, started from every combination of path, Accept-Encoding,         *)
(* transport security and Content-Type below.                              *)
(***************************************************************************)
PathPprofHeap == PprofPrefix \o <<"/", "h", "e", "a", "p">>
PathDebug == <<"/", "d", "e", "b", "u", "g", "/", "p", "p", "r", "o">>

CTGif == <<"i", "m", "a", "g", "e", "/", "g", "i", "f">>
CTVideo == <<"v", "i", "d", "e", "o", "/", "m", "p", "4">>
CTAudio == <<"a", "u", "d", "i", "o", "/", "o", "g", "g">>
CTWoff == <<"f", "o", "n", "t", "/", "w", "o", "f", "f", "2">>
CTShort == <<"a", "/", "b">>

PolicyRequests ==
    {Request("GET", p, RelF, a, t, x, NoIMS) :
        p \in {PathX, PprofPrefix, PathPprofHeap, PathDebug},
        a \in {<< >>, AEGzip, AEBr, AEBoth, AEDeflate},
        t \in BOOLEAN,
        x \in {"", "http", "https"}}

PolicyHeaders ==
    Headers({<< >>, <<CTHtml>>, <<CTJpeg>>, <<CTPng>>, <<CTGif>>, <<CTVideo>>,
             <<CTAudio>>, <<CTWoff>>, <<CTShort>>, <<CTFive>>},
            {TRUE}, {FALSE})

InitPolicy ==
    /\ InitDyn(PolicyRequests, PolicyHeaders, {FSDisk(BaseA, RelF, TRUE, "stale")})
    /\ NoStatic

NextPolicy ==
    \/ Write(Threshold)
    \/ FS
    \/ Finalize

SpecPolicy == InitPolicy /\ [][NextPolicy]_vars

(***************************************************************************)
(* The static cache manager: a StaticObj as NewStatic leaves it (dest      *)
(* made, src enqueued, the first walker started), its walkers and workers, *)
(* one more Compress call, and a SendFile for the request.                 *)
(***************************************************************************)
Root == <<"/">>
DestC == <<"/", "c">>

StaticConfigs ==
    {StaticOpts(src, Root, l[1], l[2]) :
        src \in {BaseA, Root}, l \in {<<9, 11>>, <<0, 4>>}}

(* the disk of a StaticObj: the source of RelF at time 2 under src, its    *)
(* artifacts where SendFile looks for them, and the working directory      *)
StaticDisk(cfg, art, content) ==
    LET orig == Join(cfg.src, RelF)
        cache == Join(cfg.dest, RelF)
        f0 == FilePut(FilePut(FilePut(FilePut(<< >>, Root, DirFile(0)),
                                      cfg.src, DirFile(0)),
                              cfg.dest, DirFile(0)),
                      Cwd, DirFile(0))
        f1 == FilePut(f0, orig, FullFile(Raw(<<<<content, 2000>>>>), 2))
    IN  IF art = "absent" THEN f1
        ELSE FilePut(FilePut(f1, cache \o healthyCache(gzType), ArtFor(gzType, art)),
                     cache \o healthyCache(brType), ArtFor(brType, art))

StaticRequests == {Request("GET", PathX, RelF, AEGzip, FALSE, "", NoIMS)}

NewStatic(cfg) ==
    /\ static = cfg
    /\ walkerIsRunning = FALSE
    /\ walkerPaths = <<cfg.src>>
    /\ walkers = <<NewWalker>>
    /\ workers = << >>
    /\ compressCalls = 0
    /\ sendCalls = 0
    /\ lastJob = NoJob

InitStatic ==
    \E cfg \in StaticConfigs :
        /\ InitDyn(StaticRequests, Headers({<< >>}, {TRUE}, {FALSE}),
                   {StaticDisk(cfg, a, k) : a \in {"absent", "stale"}, k \in 1..3})
        /\ NewStatic(cfg)

NextStatic ==
    \/ Compress
    \/ SendFile
    \/ \E w \in 1..Len(walkers) : WalkerTop(w)
    \/ \E w \in 1..Len(walkers) : WalkerVisit(w)
    \/ \E w \in 1..Len(walkers) : \E k \in 1..Len(workers) : Handoff(w, k)
    \/ \E k \in 1..Len(workers) : JobOpen(k)
    \/ \E k \in 1..Len(workers) : JobCopy(k)
    \/ \E k \in 1..Len(workers) : JobFinish(k)

SpecStatic == InitStatic /\ [][NextStatic]_vars

(***************************************************************************)
(* The same StaticObj under the scheduling the Go runtime gives: a walker  *)
(* or worker goroutine that can take its next step does take it.  The      *)
(* calls made from outside (Compress, SendFile) are under no such          *)
(* obligation.  Started with a stale artifact where SendFile looks for it. *)
(***************************************************************************)
InitStaticFair ==
    \E cfg \in {StaticOpts(src, Root, 9, 11) : src \in {BaseA, Root}} :
        /\ InitDyn(StaticRequests, Headers({<< >>}, {TRUE}, {FALSE}),
                   {StaticDisk(cfg, "stale", 1)})
        /\ NewStatic(cfg)

(* where each step of a goroutine can be taken *)
TopReady ==
    \E w \in 1..Len(walkers) :
        /\ walkers[w].pc = "top"
        /\ Len(walkerPaths) = 0 \/ walkers[w].pass < MaxPasses
VisitReady == \E w \in 1..Len(walkers) : walkers[w].pc = "walk"
OpenReady == \E k \in 1..Len(workers) : workers[k].pc = "open"
CopyReady == \E k \in 1..Len(workers) : workers[k].pc = "copy"
FinishReady == \E k \in 1..Len(workers) : workers[k].pc = "finish"

(* weak fairness of the goroutines' steps.  Where a step's readiness is    *)
(* given above, WF_v(A) is written out as []<>~ENABLED <<A>>_v \/          *)
(* []<><<A>>_v with the readiness for ENABLED                              *)
FairStatic ==
    /\ []<>(~TopReady) \/ []<><<\E w \in 1..Len(walkers) : WalkerTop(w)>>_vars
    /\ []<>(~VisitReady) \/ []<><<\E w \in 1..Len(walkers) : WalkerVisit(w)>>_vars
    /\ WF_vars(\E w \in 1..Len(walkers) : \E k \in 1..Len(workers) : Handoff(w, k))
    /\ []<>(~OpenReady) \/ []<><<\E k \in 1..Len(workers) : JobOpen(k)>>_vars
    /\ []<>(~CopyReady) \/ []<><<\E k \in 1..Len(workers) : JobCopy(k)>>_vars
    /\ []<>(~FinishReady) \/ []<><<\E k \in 1..Len(workers) : JobFinish(k)>>_vars

SpecStaticFair == InitStaticFair /\ [][NextStatic]_vars /\ FairStatic

(***************************************************************************)
(* The static lookups on their input space: one request, for each relative *)
(* path below, looked up by outBuf.FS under base /a and by SendFile of a   *)
(* StaticObj with src /a, over a disk that also holds a sibling directory  *)
(* /ab and a file outside both.                                            *)
(***************************************************************************)
SiblingAB == <<"/", "a", "b">>

LookupRels ==
    {RelF,
     <<".", ".", "/", "a", "b", "/", "f">>,
     <<".", ".", "/", "f">>,
     <<".", ".", "/", "a", "/", "f">>,
     <<"b", "/", ".", ".", "/", "f">>,
     <<".", ".", "/", ".", ".", "/", "f">>}

LookupRequests ==
    {Request("GET", PathX, rel, a[1], a[2], "", NoIMS) :
        rel \in LookupRels,
        a \in {<<<< >>, FALSE>>, <<AEGzip, FALSE>>, <<AEBoth, TRUE>>}}

LookupConfigs == {StaticOpts(BaseA, d, 9, 11) : d \in {Root, DestC}}

(* the source and the artifacts of FS (beside the source, with sidecar),   *)
(* the artifacts of SendFile (under dest), and the files outside /a        *)
LookupDisk(cfg, art) ==
    LET cache == Join(cfg.dest, RelF)
        f0 == FilePut(FilePut(FilePut(FSDisk(BaseA, RelF, TRUE, art),
                                      cfg.dest, DirFile(0)),
                              SiblingAB, DirFile(0)),
                      Cwd, DirFile(0))
        f1 == FilePut(FilePut(f0, SiblingAB \o <<"/">> \o RelF,
                              FullFile(Raw(SourceChunks), 2)),
                      Root \o RelF, FullFile(Raw(SourceChunks), 2))
    IN  IF art = "absent" THEN f1
        ELSE FilePut(FilePut(f1, cache \o healthyCache(gzType), ArtFor(gzType, art)),
                     cache \o healthyCache(brType), ArtFor(brType, art))

InitLookup ==
    \E cfg \in LookupConfigs :
        /\ InitDyn(LookupRequests, Headers({<< >>}, {TRUE}, {FALSE}),
                   {LookupDisk(cfg, a) : a \in ArtStates})
        /\ NewStatic(cfg)

NextLookup ==
    \/ FS
    \/ SendFile
    \/ Finalize

SpecLookup == InitLookup /\ [][NextLookup]_vars

(***************************************************************************)
(* Claims.                                                                 *)
(***************************************************************************)

(* C1 (as claimed): when the handler wrote at least 1024 bytes in all, a   *)
(* gzip compressor was built, the sink took every write and no FS call was *)
(* made, the sink holds after finalize exactly the gzip stream of the      *)
(* handler's bytes: each byte once through the compressor, none raw.       *)
C1_SinkIsCompressedStream ==
    ( /\ pc = "done"
      /\ fsCalls = 0
      /\ ~sinkBroken
      /\ SumLen(written) >= Threshold
      /\ compressor.kind = "gz" )
        => sink = Compressed(gzType, written)

(* C2: when the handler wrote fewer than 1024 bytes in all and made no FS  *)
(* call, nothing has reached the sink before finalize, no Content-Encoding *)
(* is set, and after finalize (the sink taking the write) the sink holds   *)
(* exactly the handler's bytes in write order.                             *)
C2_SmallBodyUntouched ==
    ( fsCalls = 0 /\ SumLen(written) < Threshold )
        => /\ hdr.ce = << >>
           /\ pc # "done" => sink = << >>
           /\ (pc = "done" /\ ~sinkBroken) => sink = Raw(written)

C2_Witness ==
    /\ pc = "done"
    /\ fsCalls = 0
    /\ ~sinkBroken
    /\ Len(written) = 2
    /\ SumLen(written) = Threshold - 1
    /\ sink = Raw(written)
    /\ hdr.ce = << >>

(* the resolved path of a lookup lies inside the base directory: it is the *)
(* base or below it                                                        *)
Inside(base, full) ==
    \/ full = base
    \/ HasPrefix(full, IF base = <<"/">> THEN base ELSE base \o <<"/">>)

(* C3 (as claimed): a static lookup (FS under staticBase, SendFile under   *)
(* the StaticObj's src) accepts the request exactly when the resolved path *)
(* lies inside the base directory, and makes no file-system call for a     *)
(* path that does not.                                                     *)
C3_RejectsOutsideAcceptsInside ==
    (lookup.by # "none" /\ lookup.how # "notget")
        => LET base == IF lookup.by = "FS" THEN staticBase ELSE static.src
               in == Inside(base, lookup.full)
           IN  /\ lookup.ok <=> in
               /\ ~in => lookup.ops = 0

(* C4 (as claimed): in the order of events of a response, no header        *)
(* mutation by the interceptor follows a body byte written to the sink.    *)
C4_HeadersBeforeBody ==
    \A i \in 1..Len(wire) : \A j \in 1..Len(wire) :
        (i < j) => ~(wire[i] = "B" /\ wire[j] = "H")

(* C5 (as claimed): at most one walker loop is active at any time.         *)
C5_OneWalker ==
    Cardinality({w \in 1..Len(walkers) : walkers[w].pc # "exit"}) <= 1

(* the final artifact paths on disk, and the contents an artifact at p may *)
(* be the compressed form of: the file whose artifact path p is, or the    *)
(* source as it was before (the artifacts the disk started with)           *)
IsFinal(f, p) ==
    /\ p[1] = "/"
    /\ ~f[p].dir
    /\ Len(p) > 3
    /\ SubSeq(p, Len(p) - 2, Len(p)) \in {healthyCache(gzType), healthyCache(brType)}

Versions(f, p) ==
    {Raw(SourceChunks)} \cup
    {f[q].data : q \in {q \in DOMAIN f :
                          \E e \in {gzType, brType} :
                              p = Join(static.dest, q) \o healthyCache(e)}}

(* C6 (as claimed): at every moment the file at a final artifact path is   *)
(* a zero-length sentinel or a complete compressed stream (the codec's     *)
(* output for the whole content and its trailer) of the source or of the   *)
(* source's previous version, never an unfinished or partial one.          *)
C6_FinalIsComplete ==
    \A p \in DOMAIN fs :
        IsFinal(fs, p)
            => \/ fs[p].size = 0
               \/ \E kind \in {"gz", "br"} : \E content \in Versions(fs, p) :
                     fs[p].data = Encode(kind, content) \o Trailer(kind)

(* the lookups that got as far as deciding between hit, raw and miss *)
Decided ==
    /\ lookup.by # "none"
    /\ lookup.ok
    /\ lookup.enc # none
    /\ lookup.how \in {"hit", "openerr", "raw", "miss", "skip", "createerr",
                       "copyerr", "err"}

(* C7 (as claimed): a lookup serves a non-empty artifact as a cache hit    *)
(* exactly when the artifact's modification time is strictly after the     *)
(* source's; an absent, older or equally old artifact is not served.       *)
C7_HitIffStrictlyNewer ==
    (Decided /\ ~(lookup.cex /\ lookup.csz = 0))
        => ( lookup.how \in {"hit", "openerr"}
               <=> (lookup.cex /\ lookup.cmt > lookup.smt) )

(* C8 (as claimed): when the artifact of the negotiated encoding exists    *)
(* with length zero, the lookup sets no Content-Encoding (or TE), enqueues *)
(* no compression, lets no encoded byte reach the client, and SendFile     *)
(* sends the raw source.                                                   *)
C8_SentinelServesRaw ==
    (Decided /\ fsCalls + sendCalls = 1 /\ lookup.cex /\ lookup.csz = 0)
        => /\ hdr.ce = << >>
           /\ hdr.te = << >>
           /\ ~lookup.enq
           /\ \A i \in 1..Len(sink) : sink[i].e = << >>
           /\ (lookup.by = "SendFile" /\ ~sinkBroken)
                 => sink = fs[lookup.full].data

(* C9 (as claimed): a job that reaches its size test creates the           *)
(* zero-length sentinel exactly when the compressed size exceeds 90% of    *)
(* the source size, and publishes the compressed file otherwise.           *)
C9_SentinelOver90 ==
    (lastJob.done /\ lastJob.how \in {"sentinel", "published"})
        => ( lastJob.how = "sentinel" <=> lastJob.out * 10 > lastJob.in * 9 )

(* the policy as the claim states it *)
ClaimedClassified(mime) ==
    \/ /\ HasPrefix(mime, ImagePrefix)
       /\ SubSeq(mime, 7, Len(mime)) \notin {<<"g", "i", "f">>, <<"p", "n", "g">>}
    \/ HasPrefix(mime, VideoPrefix)
    \/ HasPrefix(mime, AudioPrefix)
    \/ HasPrefix(mime, WoffPrefix)

ClaimedDecision(r, mime) ==
    IF HasPrefix(r.path, PprofPrefix) THEN none
    ELSE IF ClaimedClassified(mime) THEN none
    ELSE IF Contains(r.ae, AEBr) /\ (r.tls \/ r.xfp = "https") THEN brType
    ELSE IF Contains(r.ae, AEGzip) THEN gzType
    ELSE none

(* C10 (as claimed): the policy returns, for every request and content     *)
(* type, the encoding of the first matching rule (pprof prefix, already    *)
(* compressed, br over a secure connection, gzip, none): the compressor a  *)
(* Write builds is of that encoding, and a pprof path gets no              *)
(* Content-Encoding.                                                       *)
C10_PolicyOrder ==
    /\ pc # "panic"
    /\ (compressor.kind # "nil" /\ fsCalls = 0)
          => /\ cmpType = ClaimedDecision(req, HeaderGet(hdr.ct))
             /\ KindEnc(compressor.kind) = cmpType
    /\ HasPrefix(req.path, PprofPrefix) => (hdr.ce = << >> /\ hdr.te = << >>)

(* C10 but for the content types on which the policy does not return: the *)
(* order of the rules is as claimed whenever it returns                    *)
C10_PolicyOrderWhenReturns ==
    /\ (compressor.kind # "nil" /\ fsCalls = 0)
          => /\ cmpType = ClaimedDecision(req, HeaderGet(hdr.ct))
             /\ KindEnc(compressor.kind) = cmpType
    /\ HasPrefix(req.path, PprofPrefix) => (hdr.ce = << >> /\ hdr.te = << >>)


(* C11 (as claimed): a static GET whose If-Modified-Since parses and is    *)
(* after the source's modification time is answered 304 with no body and   *)
(* no compression work (no cache file created, no compressor built),       *)
(* whatever the state of the artifact.                                     *)
C11_NotModified ==
    ( /\ lookup.by = "FS"
      /\ fsCalls = 1
      /\ written = << >>
      /\ lookup.ok
      /\ lookup.enc # none
      /\ req.ims.has /\ req.ims.ok
      /\ Exists(fs, lookup.full)
      /\ fs[lookup.full].mtime < req.ims.t )
        => /\ status = 304
           /\ sink = << >>
           /\ compressor.kind = "nil"
           /\ ~lookup.cex => ~Exists(fs, lookup.full \o Dot \o ceString(lookup.enc))


(* the path at which SendFile looks for the artifact of the request *)
CachePathOf(encoding) == Join(static.dest, req.rel) \o healthyCache(encoding)

LevelOf(encoding) == IF encoding = gzType THEN static.gz ELSE static.br

EncodingUnused(encoding) ==
    /\ \A k \in 1..Len(workers) : workers[k].enc # encoding
    /\ hdr.ce # ceString(encoding)
    /\ \A i \in 1..Len(sink) : \A j \in 1..Len(sink[i].e) : sink[i].e[j] # encoding

C13_ZeroDisables ==
    \A encoding \in {gzType, brType} :
        LevelOf(encoding) = 0 => EncodingUnused(encoding)

(***************************************************************************)
(* C14: the walk loop pops each enqueued root once, each pop shortening    *)
(* the pending queue by one: the roots still pending and the roots popped  *)
(* so far are together the roots enqueued so far (by NewStatic, by the     *)
(* Compress calls and by SendFile), so that the loop comes to an empty     *)
(* queue and exits.                                                        *)
(***************************************************************************)
RECURSIVE Popped(_)
Popped(ws) == IF ws = << >> THEN 0 ELSE Head(ws).pass + Popped(Tail(ws))

Enqueued == 1 + compressCalls + (IF lookup.enq THEN 1 ELSE 0)

C14_PopShortensQueue == Len(walkerPaths) + Popped(walkers) = Enqueued

(***************************************************************************)
(* C15: the workers of a walk pass end with that pass: once the walker has *)
(* finished enumerating the root of a pass, the handoff channel of that    *)
(* pass is closed, so no worker of the pass is left waiting to receive     *)
(* from it (a receive from a closed channel returns at once).              *)
(***************************************************************************)
PassOver(wk) ==
    /\ walkers[wk.w].pc \in {"top", "exit"}
    /\ walkers[wk.w].pass >= wk.pass

ChannelClosed(wk) == walkers[wk.w].pc = "exit"

C15_WorkersEndWithPass ==
    \A k \in 1..Len(workers) :
        PassOver(workers[k]) =>
            /\ ChannelClosed(workers[k])
            /\ workers[k].pc # "recv"

(***************************************************************************)
(* C16: once a compressor exists, the recorded encoding (cmpType) is the   *)
(* encoding of the compressor that was built, whatever Write and FS calls  *)
(* follow.                                                                 *)
(***************************************************************************)
EncodingOfKind(kind) ==
    IF kind = "gz" THEN gzType ELSE IF kind = "br" THEN brType ELSE none

C16_RecordedEncodingIsBuilt ==
    (pc = "handler" /\ compressor.kind # "nil") =>
        cmpType = EncodingOfKind(compressor.kind)

(***************************************************************************)
(* C17: after the factory has built a gzip or brotli compressor, the       *)
(* response headers have no Content-Length, carry the name of the encoding *)
(* on one header only, which is TE if Content-Range is present and         *)
(* Content-Encoding otherwise, and have Vary: Accept-Encoding; for none    *)
(* the compressor is the pass-through one, neither Content-Encoding nor TE *)
(* is set, and Vary is.                                                    *)
(***************************************************************************)
FactorySets(h, h2, kind) ==
    /\ h2.vary = AcceptEncodingName
    /\ h2.ct = h.ct /\ h2.cr = h.cr
    /\ IF kind = "fake"
       THEN h2.ce = h.ce /\ h2.te = h.te /\ h2.cl = h.cl
       ELSE LET name == ceString(EncodingOfKind(kind))
            IN  /\ ~h2.cl
                /\ IF h.cr
                   THEN h2.te = name /\ h2.ce = h.ce /\ h2.ce # name
                   ELSE h2.ce = name /\ h2.te = h.te /\ h2.te # name

C17_FactoryHeaders ==
    [][(compressor.kind = "nil" /\ compressor'.kind # "nil")
          => FactorySets(hdr, hdr', compressor'.kind)]_vars

C17_Witness ==
    /\ compressor.kind = "gz"
    /\ hdr.cr /\ hdr.te = ceString(gzType) /\ hdr.ce = << >> /\ ~hdr.cl
    /\ hdr.vary = AcceptEncodingName

(***************************************************************************)
(* C18: when the completion function has run, a failure of the             *)
(* compressor's Close and a failure of the final write to the sink are in  *)
(* the response's error list, the function having returned normally; and   *)
(* the buffer, if one was acquired, has been put back into the pool once,  *)
(* truncated to length zero (none is put back if none was acquired).       *)
(***************************************************************************)
CloseFailed == compressor.kind \in {"gz", "br"} /\ ~compressor.tee /\ compressor.err

Recorded(e) == \E i \in 1..Len(Errors) : Errors[i] = e

C18_FinalizeRecordsAndReleases ==
    pc = "done" =>
        /\ CloseFailed => Recorded("close")
        /\ sinkBroken => Recorded("write")
        /\ pool.gets = (IF bAlloc THEN 1 ELSE 0)
        /\ pool.puts = pool.gets
        /\ pool.kept = << >>

C18_Witness ==
    /\ pc = "done"
    /\ CloseFailed /\ sinkBroken
    /\ Recorded("close") /\ Recorded("write")
    /\ b # << >> /\ pool.gets = 1 /\ pool.puts = 1 /\ pool.kept = << >>

(***************************************************************************)
(* C19: in a cache-warming response (the one FS call took the miss path    *)
(* and built the tee) every byte goes to both destinations in the same     *)
(* order: after finalize the new cache artifact holds exactly the body the *)
(* client received, whatever the handler wrote before and after the FS     *)
(* call.                                                                   *)
(***************************************************************************)
C19_ArtifactEqualsBody ==
    ( /\ pc = "done"
      /\ fsCalls = 1
      /\ compressor.tee
      /\ ~sinkBroken
      /\ Exists(fs, compressor.disk) )
        => fs[compressor.disk].data = sink

(* C19, lemma: with nothing buffered when the FS call is made, the         *)
(* artifact and the body are the same.                                     *)
C19_ArtifactEqualsBodyUnbuffered ==
    ( /\ pc = "done"
      /\ fsCalls = 1
      /\ compressor.tee
      /\ ~sinkBroken
      /\ Exists(fs, compressor.disk)
      /\ b = << >> )
        => fs[compressor.disk].data = sink

(***************************************************************************)
(* C20: in a cache-warming response the content-type sidecar is written    *)
(* and closed only after the wrapped compressor and then the cache file    *)
(* have been closed, in that order: the sidecar holds nothing while the    *)
(* artifact is still open.                                                 *)
(***************************************************************************)
ArtifactClosed ==
    Len(compressor.closed) >= 2 /\ SubSeq(compressor.closed, 1, 2) = <<"wc", "disk">>

SidecarWritten == \E i \in 1..Len(compressor.closed) : compressor.closed[i] = "mimefile"

SidecarHolds == Exists(fs, compressor.mime) /\ fs[compressor.mime].text # << >>

C20_SidecarAfterArtifact ==
    compressor.tee =>
        /\ SidecarWritten => ArtifactClosed /\ compressor.closed[3] = "mimefile"
        /\ SidecarHolds => ArtifactClosed

C20_Witness ==
    /\ pc = "done" /\ compressor.tee
    /\ compressor.closed = <<"wc", "disk", "mimefile">>
    /\ SidecarHolds

(***************************************************************************)
(* C21: an artifact a compression job has published is encoded with the    *)
(* codec its suffix names (gzip data at .gz, brotli data at .br), and once *)
(* the job has finished (published, or replaced by a sentinel) no          *)
(* temporary file remains at the artifact's name plus the marker.          *)
(***************************************************************************)
HasSuffix(str, suf) ==
    Len(str) >= Len(suf) /\ SubSeq(str, Len(str) - Len(suf) + 1, Len(str)) = suf

SuffixEncoding(p) == IF HasSuffix(p, healthyCache(brType)) THEN brType ELSE gzType

EncodedAs(file, encoding) ==
    \A i \in 1..Len(file.data) : Last(file.data[i].e) = encoding

C21_SuffixNamesCodec ==
    ( /\ lastJob.done
      /\ lastJob.how \in {"published", "sentinel"} )
        => /\ ~Exists(fs, lastJob.final \o TmpMark)
           /\ ( lastJob.how = "published" /\ Exists(fs, lastJob.final) )
                 => EncodedAs(fs[lastJob.final], SuffixEncoding(lastJob.final))

(***************************************************************************)
(* C22: during a walk a path is handed to the workers only if it is a      *)
(* regular file of at least 1024 bytes whose cache artifacts are not       *)
(* already newer than the file: a source whose artifacts (of every enabled *)
(* encoding) are all newer than it is never dispatched again.              *)
(***************************************************************************)
EnabledEncodings ==
    {e \in {gzType, brType} : (IF e = gzType THEN static.gz ELSE static.br) # 0}

ArtifactOf(path, encoding) == Join(static.dest, path) \o healthyCache(encoding)

ArtifactsNewer(f, path) ==
    \A e \in EnabledEncodings :
        /\ Exists(f, ArtifactOf(path, e))
        /\ f[ArtifactOf(path, e)].mtime > f[path].mtime

Eligible(f, path) ==
    /\ Exists(f, path) /\ ~f[path].dir
    /\ f[path].size >= Threshold
    /\ ~ArtifactsNewer(f, path)

(* the step of the walk function that decides on the next path: it goes to *)
(* the workers (the walker is at "send") exactly when it is eligible       *)
C22_FreshNotDispatched ==
    [][\A w \in 1..Len(walkers) :
          ( /\ walkers[w].pc = "walk"
            /\ walkers[w].todo # << >>
            /\ Len(walkers') = Len(walkers)
            /\ walkers'[w] # walkers[w] )
              => ( walkers'[w].pc = "send"
                     <=> Eligible(fs, Head(walkers[w].todo)) )]_vars

(***************************************************************************)
(* C23: on a miss or a stale artifact SendFile streams the source through  *)
(* a new compressor and closes it before it returns: the body the client   *)
(* has received when SendFile has returned is the complete stream of the   *)
(* source's content in the negotiated encoding, trailer included.          *)
(***************************************************************************)
CompleteStream(encoding, items) ==
    [i \in 1..Len(items) |-> [e |-> Append(items[i].e, encoding), c |-> items[i].c]]
        \o <<[e |-> <<encoding>>, c |-> EOF]>>

C23_MissBodyIsComplete ==
    ( /\ lookup.by = "SendFile"
      /\ lookup.how = "miss"
      /\ lookup.enc # none
      /\ ~sinkBroken
      /\ Exists(fs, lookup.full) )
        => sink = CompleteStream(lookup.enc, fs[lookup.full].data)

(***************************************************************************)
(* Two concurrent requests for the same static path through outBuf.FS.     *)
(* The request modelled in full above is the one looking up.  The other,   *)
(* warming the cache, acts on the file system alone, by the steps of       *)
(* FS's miss path, of a Write through the tee and of the completion        *)
(* function; where it stands is told by the file it writes.                *)
(***************************************************************************)
WarmOrig == Join(staticBase, req.rel)
WarmDest == WarmOrig \o Dot \o ceString(browserWants(req))
WarmMime == WarmOrig \o MimeExt

(* the name the miss path creates the cache file under, creat(dest); and   *)
(* a temporary name in its place                                           *)
WarmTargetTmp(dest) == dest \o TmpMark

WarmTarget(dest) == dest

HasTrailer(items) == items # << >> /\ Last(items).c = EOF

(* the warming request has created its cache file and not yet closed it *)
WarmOpen ==
    /\ Exists(fs, WarmTarget(WarmDest))
    /\ ~fs[WarmTarget(WarmDest)].dir
    /\ ~HasTrailer(fs[WarmTarget(WarmDest)].data)

(* what FS's lookup takes for a cache hit *)
LooksFresh(f, dest) ==
    /\ Exists(f, dest) /\ Exists(f, WarmOrig)
    /\ ~f[dest].dir /\ ~f[WarmOrig].dir
    /\ f[dest].mtime > f[WarmOrig].mtime

(* the miss path of the warming request's FS call: creat(dest) and         *)
(* creat(origFullPath + ".mime")                                           *)
WarmCreate ==
    /\ browserWants(req) # none
    /\ Exists(fs, WarmOrig)
    /\ ~LooksFresh(fs, WarmDest)
    /\ ~WarmOpen
    /\ CanCreate(fs, WarmTarget(WarmDest)) /\ CanCreate(fs, WarmMime)
    /\ fs' = OSCreate(OSCreate(fs, WarmTarget(WarmDest), now), WarmMime, now)
    /\ UNCHANGED <<req, staticBase, hdr, status, b, bAlloc, compressor, cmpType,
                   Errors, sink, sinkBroken, pool, pc, now, written, wire,
                   fsCalls, lookup, statVars>>

(* a write of the warming request's handler, through the tee to the file *)
WarmWrite ==
    /\ WarmOpen
    /\ fs[WarmTarget(WarmDest)].data = << >>
    /\ fs' = FileAppend(fs, WarmTarget(WarmDest),
                        Encode((IF browserWants(req) = brType THEN "br" ELSE "gz"), Raw(SourceChunks)), now)
    /\ UNCHANGED <<req, staticBase, hdr, status, b, bAlloc, compressor, cmpType,
                   Errors, sink, sinkBroken, pool, pc, now, written, wire,
                   fsCalls, lookup, statVars>>

(* the warming request's completion: the codec's trailer, the file closed, *)
(* then WriteMIME                                                          *)
WarmClose ==
    /\ WarmOpen
    /\ fs[WarmTarget(WarmDest)].data # << >>
    /\ LET kind == (IF browserWants(req) = brType THEN "br" ELSE "gz")
           fs1 == FileAppend(fs, WarmTarget(WarmDest), Trailer(kind), now)
       IN  fs' = IF Exists(fs1, WarmMime)
                 THEN [fs1 EXCEPT ![WarmMime] =
                          [@ EXCEPT !.text = CTHtml, !.size = Len(CTHtml),
                                    !.mtime = now]]
                 ELSE fs1
    /\ UNCHANGED <<req, staticBase, hdr, status, b, bAlloc, compressor, cmpType,
                   Errors, sink, sinkBroken, pool, pc, now, written, wire,
                   fsCalls, lookup, statVars>>

InitWarm ==
    /\ InitDyn({Request("GET", PathX, RelF, AEGzip, FALSE, "", NoIMS)},
               Headers({<< >>, <<CTHtml>>}, {TRUE}, {FALSE}),
               {FSDisk(BaseA, RelF, TRUE, a) : a \in {"absent", "stale"}})
    /\ NoStatic

NextWarm ==
    \/ \E n \in WriteLens : Write(n)
    \/ FS
    \/ Finalize
    \/ WarmCreate
    \/ WarmWrite
    \/ WarmClose

SpecWarm == InitWarm /\ [][NextWarm]_vars

(***************************************************************************)
(* C24: with two concurrent requests for the same path through outBuf.FS,  *)
(* the cache file the warming request has created and not yet finished     *)
(* stands at the final artifact path, where a lookup takes it for a fresh  *)
(* artifact; and a lookup that hits is served what that path holds at the  *)
(* time, finished or not.                                                  *)
(***************************************************************************)
IsPrefix(s1, s2) == Len(s1) <= Len(s2) /\ SubSeq(s2, 1, Len(s1)) = s1

FirstLookupHit ==
    /\ lookup.by = "FS" /\ lookup.how = "hit"
    /\ fsCalls = 1 /\ written = << >> /\ pc = "handler"

C24_PartialIsObservable ==
    /\ WarmOpen => /\ LooksFresh(fs, WarmDest)
                   /\ ~HasTrailer(fs[WarmDest].data)
    /\ FirstLookupHit => /\ Exists(fs, WarmDest)
                         /\ IsPrefix(sink, fs[WarmDest].data)

(* the looking-up request has been served an unfinished artifact *)
C24_Witness ==
    /\ FirstLookupHit
    /\ hdr.ce = ceString(gzType)
    /\ sink # << >> /\ ~HasTrailer(sink)
    /\ IsPrefix(sink, fs[WarmDest].data)

(***************************************************************************)
(* C25: for every content-type string, the empty one and those shorter     *)
(* than six characters included, the already-compressed classification     *)
(* returns without failing (the response never ends in a panic of the      *)
(* policy), and it says yes exactly for image types other than GIF and     *)
(* PNG, video and audio types and woff fonts, so that a response of such a *)
(* type is given the pass-through compressor.                              *)
(***************************************************************************)
C25_ClassifiesEveryType ==
    /\ pc # "panic"
    /\ (compressor.kind # "nil" /\ fsCalls = 0) =>
          LET mime == HeaderGet(hdr.ct)
          IN  /\ alreadyCompressed(mime) \in {"yes", "no"}
              /\ alreadyCompressed(mime) = "yes" <=> ClaimedClassified(mime)
              /\ alreadyCompressed(mime) = "yes" => compressor.kind = "fake"
====
